---- MODULE Spec2Model ----
(***************************************************************************)
(* Filter-and-aggregate recompute step of the two dashboard scripts:       *)
(*   BokehDashboard.py   update_all()     (controls -> three data sources) *)
(*   DashInteractive.py  update_charts()  (inputs   -> three figures)      *)
(* Real-valued columns are exact rationals [num, den]; den = 0 encodes the *)
(* IEEE results of a division by zero (num 1: +inf, -1: -inf, 0: nan).     *)
(* Timestamps are hours since 2024-01-01 00:00.                            *)
(***************************************************************************)
EXTENDS Integers, Sequences, FiniteSets

VARIABLES
    script,           \* which of the two programs is running
    df,               \* the module-level DataFrame (rows in index order)
    region_ctrl,      \* Bokeh: region_ctrl.value
    cat_ctrl,         \* Bokeh: cat_ctrl.value
    sales_ctrl,       \* Bokeh: [value, value_throttled] of the RangeSlider
    scatter_source,   \* Bokeh: scatter_source.data (rows)
    line_source,      \* Bokeh: line_source.data  (dict of columns)
    bar_source,       \* Bokeh: bar_source.data   (dict of columns)
    x_range_factors,  \* Bokeh: bar_fig.x_range.factors
    region_dropdown,  \* Dash: value of 'region-dropdown'
    category_dropdown,\* Dash: value of 'category-dropdown'
    sales_slider,     \* Dash: value of 'sales-slider'
    scatter_plot,     \* Dash: data of the 'scatter-plot' figure
    bar_chart,        \* Dash: data of the 'bar-chart' figure
    line_chart,       \* Dash: data of the 'line-chart' figure
    ev,               \* the event whose handler ran last
    n_update,         \* invocations of the recompute step made by that handler
    first_views       \* the views published by the initial recompute

vars == <<script, df, region_ctrl, cat_ctrl, sales_ctrl, scatter_source,
          line_source, bar_source, x_range_factors, region_dropdown,
          category_dropdown, sales_slider, scatter_plot, bar_chart,
          line_chart, ev, n_update, first_views>>

bokehVars == <<region_ctrl, cat_ctrl, sales_ctrl, scatter_source, line_source,
               bar_source, x_range_factors>>
dashVars == <<region_dropdown, category_dropdown, sales_slider, scatter_plot,
              bar_chart, line_chart>>

(***************************************************************************)
(* Bounds of the model                                                     *)
(***************************************************************************)
NRows == 5
\* the rows the seeded generator may produce, one of these per index
RowKinds ==
    { [sales |-> 0, profit |-> -1, region |-> "North", category |-> "Electronics"],
      [sales |-> 1, profit |-> 2,  region |-> "South", category |-> "Books"],
      [sales |-> 2, profit |-> 1,  region |-> "North", category |-> "Books"] }
\* ranges the slider handles are moved to
RangeChoices == {<<1, 2>>, <<2, 1>>}

HoursPerDay == 24
BokehFreqHours == 12
DashFreqHours == 24
ClipLower == 5
ClipUpper == 40

\* groupby sorts its keys: the alphabetical order of the labels
CategoryOrder == <<"Books", "Clothing", "Electronics", "Food">>
RegionOrder == <<"East", "North", "South", "West">>

(***************************************************************************)
(* Arithmetic                                                              *)
(***************************************************************************)
Abs(x) == IF x < 0 THEN -x ELSE x
Sign(x) == IF x < 0 THEN -1 ELSE IF x > 0 THEN 1 ELSE 0
Min(S) == CHOOSE x \in S : \A y \in S : x <= y
Max(S) == CHOOSE x \in S : \A y \in S : x >= y

RECURSIVE GCD(_, _)
GCD(a, b) == IF b = 0 THEN a ELSE GCD(b, a % b)

\* float division n / d
Div(n, d) ==
    IF d = 0 THEN [num |-> Sign(n), den |-> 0]
    ELSE LET g == GCD(Abs(n), Abs(d))
             s == Sign(d)
         IN  [num |-> (s * n) \div g, den |-> (s * d) \div g]

\* float multiplication by an integer
Times(r, k) ==
    IF r.den = 0 THEN [num |-> r.num * Sign(k), den |-> 0]
    ELSE Div(r.num * k, r.den)

\* Series.abs()
SeriesAbs(r) == [num |-> Abs(r.num), den |-> r.den]

\* r >= 0 as IEEE compares it (nan compares False)
GeZero(r) == IF r.den = 0 THEN r.num = 1 ELSE r.num >= 0

\* Series.clip(lower, upper)
Clip(r, lower, upper) ==
    IF r.den = 0
    THEN IF r.num = 1 THEN Div(upper, 1)
         ELSE IF r.num = -1 THEN Div(lower, 1) ELSE r
    ELSE IF r.num < lower * r.den THEN Div(lower, 1)
         ELSE IF r.num > upper * r.den THEN Div(upper, 1) ELSE r

RECURSIVE SumSeq(_)
SumSeq(s) == IF s = <<>> THEN 0 ELSE Head(s) + SumSeq(Tail(s))

RECURSIVE SortedSeq(_)
SortedSeq(S) == IF S = {} THEN <<>>
                ELSE LET m == Min(S) IN <<m>> \o SortedSeq(S \ {m})

Column(rows, c) == [i \in DOMAIN rows |-> rows[i][c]]
Values(s) == {s[i] : i \in DOMAIN s}

(***************************************************************************)
(* Dataset construction                                                    *)
(***************************************************************************)
\* variant: the replacement is not applied
Replace_nop(x, to_replace, value) == x

\* Series.replace(to_replace, value), element-wise
Replace(x, to_replace, value) == IF x = to_replace THEN value ELSE x

\* df['profit_margin'] = (df['profit'] / df['sales'].replace(0, 1)) * 100
ProfitMargin(profit, sales) == Times(Div(profit, Replace(sales, 0, 1)), 100)

\* np.where(df['profit_margin'] >= 0, '#2ecc71', '#e74c3c')
Color(margin) == IF GeZero(margin) THEN "#2ecc71" ELSE "#e74c3c"

\* np.where(df['profit_margin'] >= 0, 'Positive', 'Negative')
MarginSign(margin) == IF GeZero(margin) THEN "Positive" ELSE "Negative"

\* pd.date_range('2024-01-01', periods=n, freq=...)
DateRange(i, freqHours) == (i - 1) * freqHours

BokehRow(base, i) ==
    LET pm == ProfitMargin(base.profit, base.sales)
    IN  [idx |-> i - 1, sales |-> base.sales, profit |-> base.profit,
         region |-> base.region, category |-> base.category,
         date |-> DateRange(i, BokehFreqHours),
         profit_margin |-> pm, abs_margin |-> SeriesAbs(pm),
         color |-> Color(pm),
         size |-> Clip(SeriesAbs(pm), ClipLower, ClipUpper)]

DashRow(base, i) ==
    LET pm == ProfitMargin(base.profit, base.sales)
    IN  [idx |-> i - 1, sales |-> base.sales, profit |-> base.profit,
         region |-> base.region, category |-> base.category,
         date |-> DateRange(i, DashFreqHours),
         profit_margin |-> pm, abs_margin |-> SeriesAbs(pm),
         margin_sign |-> MarginSign(pm)]

BokehDf(base) == [i \in DOMAIN base |-> BokehRow(base[i], i)]
DashDf(base) == [i \in DOMAIN base |-> DashRow(base[i], i)]

\* df[col].unique() as the set a control is initialised with
Unique(d, c) == Values(Column(d, c))

\* the selections a multi-select is set to: nothing, the first option alone
\* (in label order), every option
Selections(options, order) ==
    {{}, options} \cup
    {{order[i]} : i \in {j \in DOMAIN order :
                            /\ order[j] \in options
                            /\ \A k \in 1..(j - 1) : order[k] \notin options}}

(***************************************************************************)
(* Recompute step                                                          *)
(***************************************************************************)
\* variant: the lower bound of the range is exclusive
Mask_strict(r, regions, categories, rng) ==
    /\ r.region \in regions
    /\ r.category \in categories
    /\ r.sales > rng[1]
    /\ r.sales <= rng[2]

\* variant: an empty selection means "no filter"
Mask_emptyMeansAll(r, regions, categories, rng) ==
    /\ regions = {} \/ r.region \in regions
    /\ categories = {} \/ r.category \in categories
    /\ r.sales >= rng[1]
    /\ r.sales <= rng[2]

\* the boolean mask of one row
Mask(r, regions, categories, rng) ==
    /\ r.region \in regions
    /\ r.category \in categories
    /\ r.sales >= rng[1]
    /\ r.sales <= rng[2]

\* df[mask].copy()
Filter(d, regions, categories, rng) ==
    SelectSeq(d, LAMBDA r : Mask(r, regions, categories, rng))

\* variant: .first() in place of .sum()
GroupByDaySum_first(rows) ==
    IF rows = <<>> THEN <<>>
    ELSE LET days == {r.date \div HoursPerDay : r \in Values(rows)}
             first == Min(days)
             last == Max(days)
             Bin(k) == SelectSeq(rows, LAMBDA r : r.date \div HoursPerDay = k)
         IN  [j \in 1..(last - first + 1) |->
                 [date |-> (first + j - 1) * HoursPerDay,
                  sales |-> IF Bin(first + j - 1) = <<>> THEN 0
                            ELSE Bin(first + j - 1)[1].sales]]

\* variant: grouping by the day of each row, days without a row left out
GroupByDaySum_noFill(rows) ==
    LET days == SortedSeq({r.date \div HoursPerDay : r \in Values(rows)})
        Bin(k) == SelectSeq(rows, LAMBDA r : r.date \div HoursPerDay = k)
    IN  [j \in DOMAIN days |->
            [date |-> days[j] * HoursPerDay,
             sales |-> SumSeq(Column(Bin(days[j]), "sales"))]]

\* groupby(pd.Grouper(key='date', freq='D'))['sales'].sum().reset_index():
\* one bin per calendar day from the first to the last day of the rows
GroupByDaySum(rows) ==
    IF rows = <<>> THEN <<>>
    ELSE LET days == {r.date \div HoursPerDay : r \in Values(rows)}
             first == Min(days)
             last == Max(days)
             Bin(k) == SelectSeq(rows, LAMBDA r : r.date \div HoursPerDay = k)
         IN  [j \in 1..(last - first + 1) |->
                 [date |-> (first + j - 1) * HoursPerDay,
                  sales |-> SumSeq(Column(Bin(first + j - 1), "sales"))]]

\* groupby('date')['sales'].sum().reset_index(): one row per date present
GroupByDateSum(rows) ==
    LET dates == SortedSeq({r.date : r \in Values(rows)})
        Grp(t) == SelectSeq(rows, LAMBDA r : r.date = t)
    IN  [j \in DOMAIN dates |->
            [date |-> dates[j], sales |-> SumSeq(Column(Grp(dates[j]), "sales"))]]

\* variant: .sum() in place of .mean()
Mean_sum(rows) == Div(SumSeq(Column(rows, "profit")), 1)

\* Series.mean() of the profit of a non-empty group
Mean(rows) == Div(SumSeq(Column(rows, "profit")), Len(rows))

\* groupby(key)['profit'].mean().reset_index(): one row per key present,
\* in sorted key order
GroupByMean(rows, key, order) ==
    LET present == SelectSeq(order, LAMBDA k : \E r \in Values(rows) : r[key] = k)
        Grp(k) == SelectSeq(rows, LAMBDA r : r[key] = k)
    IN  [j \in DOMAIN present |->
            [key |-> present[j], profit |-> Mean(Grp(present[j]))]]

\* variant: the mask is applied to the rows the scatter source holds
update_all_incremental(d, regions, categories, rng) ==
    LET filtered0 == Filter(scatter_source, regions, categories, rng)
        filtered == [i \in DOMAIN filtered0 |->
                        [filtered0[i] EXCEPT
                            !.size = Clip(filtered0[i].abs_margin, ClipLower, ClipUpper)]]
        line_agg == GroupByDaySum(filtered)
        bar_agg == GroupByMean(filtered, "category", CategoryOrder)
    IN  [df |-> d,
         scatter_source |-> filtered,
         line_source |-> [date |-> Column(line_agg, "date"),
                          sales |-> Column(line_agg, "sales")],
         bar_source |-> [category |-> Column(bar_agg, "key"),
                         profit |-> Column(bar_agg, "profit")],
         x_range_factors |-> Column(bar_agg, "key")]

\* update_all(): the globals after the call
update_all(d, regions, categories, rng) ==
    LET filtered0 == Filter(d, regions, categories, rng)
        filtered == [i \in DOMAIN filtered0 |->
                        [filtered0[i] EXCEPT
                            !.size = Clip(filtered0[i].abs_margin, ClipLower, ClipUpper)]]
        line_agg == GroupByDaySum(filtered)
        bar_agg == GroupByMean(filtered, "category", CategoryOrder)
    IN  [df |-> d,
         scatter_source |-> filtered,
         line_source |-> [date |-> Column(line_agg, "date"),
                          sales |-> Column(line_agg, "sales")],
         bar_source |-> [category |-> Column(bar_agg, "key"),
                         profit |-> Column(bar_agg, "profit")],
         x_range_factors |-> Column(bar_agg, "key")]

\* variant: the filtered rows are assigned to the global df
update_charts_inplace(d, selected_regions, selected_categories, sales_range) ==
    LET filtered_df == Filter(d, selected_regions, selected_categories, sales_range)
        bar_data == GroupByMean(filtered_df, "region", RegionOrder)
        line_data == GroupByDateSum(filtered_df)
    IN  [df |-> filtered_df,
         scatter_fig |-> filtered_df,
         bar_fig |-> [j \in DOMAIN bar_data |->
                         [region |-> bar_data[j].key, profit |-> bar_data[j].profit]],
         line_fig |-> line_data]

\* update_charts(selected_regions, selected_categories, sales_range):
\* the returned figures' data, and the global df after the call
update_charts(d, selected_regions, selected_categories, sales_range) ==
    LET filtered_df == Filter(d, selected_regions, selected_categories, sales_range)
        bar_data == GroupByMean(filtered_df, "region", RegionOrder)
        line_data == GroupByDateSum(filtered_df)
    IN  [df |-> d,
         scatter_fig |-> filtered_df,
         bar_fig |-> [j \in DOMAIN bar_data |->
                         [region |-> bar_data[j].key, profit |-> bar_data[j].profit]],
         line_fig |-> line_data]

(***************************************************************************)
(* State machine                                                           *)
(***************************************************************************)
Datasets == [1..NRows -> RowKinds]
NoViews == <<>>

Init ==
    /\ script \in {"bokeh", "dash"}
    /\ \E base \in Datasets :
          df = IF script = "bokeh" THEN BokehDf(base) ELSE DashDf(base)
    \* Bokeh: controls and sources as constructed on lines 32-38 and 92-109
    /\ region_ctrl = IF script = "bokeh" THEN Unique(df, "region") ELSE {}
    /\ cat_ctrl = IF script = "bokeh" THEN Unique(df, "category") ELSE {}
    /\ sales_ctrl =
          IF script = "bokeh"
          THEN LET v == <<Min(Unique(df, "sales")), Max(Unique(df, "sales"))>>
               IN  [value |-> v, value_throttled |-> v]
          ELSE [value |-> <<0, 0>>, value_throttled |-> <<0, 0>>]
    /\ scatter_source = IF script = "bokeh" THEN df ELSE <<>>
    /\ line_source = [date |-> <<>>, sales |-> <<>>]
    /\ bar_source = [category |-> <<>>, profit |-> <<>>]
    /\ x_range_factors = <<>>
    \* Dash: component properties as laid out on lines 35-80
    /\ region_dropdown = IF script = "dash" THEN Unique(df, "region") ELSE {}
    /\ category_dropdown = IF script = "dash" THEN Unique(df, "category") ELSE {}
    /\ sales_slider =
          IF script = "dash"
          THEN <<Min(Unique(df, "sales")), Max(Unique(df, "sales"))>>
          ELSE <<0, 0>>
    /\ scatter_plot = <<>>
    /\ bar_chart = <<>>
    /\ line_chart = <<>>
    /\ ev = "none"
    /\ n_update = 0
    /\ first_views = NoViews

\* Bokeh: run update_all() against the current control values and publish
RunUpdateAll(regions, categories, rng) ==
    LET g == update_all(df, regions, categories, rng)
    IN  /\ df' = g.df
        /\ scatter_source' = g.scatter_source
        /\ line_source' = g.line_source
        /\ bar_source' = g.bar_source
        /\ x_range_factors' = g.x_range_factors
        /\ n_update' = 1
        /\ first_views' =
              IF ev = "none"
              THEN <<g.scatter_source, g.line_source, g.bar_source, g.x_range_factors>>
              ELSE first_views

\* "Initial fill": update_all() at the end of the script
InitialFill ==
    /\ script = "bokeh" /\ ev = "none"
    /\ RunUpdateAll(region_ctrl, cat_ctrl, sales_ctrl.value)
    /\ ev' = "startup"
    /\ UNCHANGED <<script, region_ctrl, cat_ctrl, sales_ctrl, dashVars>>

\* region_ctrl.on_change('value', ...)
RegionCtrlChange ==
    /\ script = "bokeh" /\ ev # "none"
    /\ sales_ctrl.value = sales_ctrl.value_throttled
    /\ \E new \in Selections(Unique(df, "region"), RegionOrder) :
          /\ new # region_ctrl
          /\ region_ctrl' = new
          /\ RunUpdateAll(new, cat_ctrl, sales_ctrl.value)
    /\ ev' = "region"
    /\ UNCHANGED <<script, cat_ctrl, sales_ctrl, dashVars>>

\* cat_ctrl.on_change('value', ...)
CatCtrlChange ==
    /\ script = "bokeh" /\ ev # "none"
    /\ sales_ctrl.value = sales_ctrl.value_throttled
    /\ \E new \in Selections(Unique(df, "category"), CategoryOrder) :
          /\ new # cat_ctrl
          /\ cat_ctrl' = new
          /\ RunUpdateAll(region_ctrl, new, sales_ctrl.value)
    /\ ev' = "category"
    /\ UNCHANGED <<script, region_ctrl, sales_ctrl, dashVars>>

\* a handle of the RangeSlider moves: 'value' changes, and no handler is
\* registered for 'value'
SalesCtrlValue ==
    /\ script = "bokeh" /\ ev # "none"
    /\ \E new \in RangeChoices :
          /\ new # sales_ctrl.value
          /\ sales_ctrl' = [sales_ctrl EXCEPT !.value = new]
    /\ ev' = "slide"
    /\ n_update' = 0
    /\ UNCHANGED <<script, df, region_ctrl, cat_ctrl, scatter_source, line_source,
                   bar_source, x_range_factors, first_views, dashVars>>

\* variant: no handler registered for 'value_throttled'
SalesCtrlThrottled_NoHandler ==
    /\ script = "bokeh" /\ ev # "none"
    /\ sales_ctrl.value_throttled # sales_ctrl.value
    /\ sales_ctrl' = [sales_ctrl EXCEPT !.value_throttled = sales_ctrl.value]
    /\ ev' = "sales"
    /\ n_update' = 0
    /\ UNCHANGED <<script, df, region_ctrl, cat_ctrl, scatter_source, line_source,
                   bar_source, x_range_factors, first_views, dashVars>>

\* the handle is released: value_throttled takes the value;
\* sales_ctrl.on_change('value_throttled', ...)
SalesCtrlThrottled ==
    /\ script = "bokeh" /\ ev # "none"
    /\ sales_ctrl.value_throttled # sales_ctrl.value
    /\ sales_ctrl' = [sales_ctrl EXCEPT !.value_throttled = sales_ctrl.value]
    /\ RunUpdateAll(region_ctrl, cat_ctrl, sales_ctrl.value)
    /\ ev' = "sales"
    /\ UNCHANGED <<script, region_ctrl, cat_ctrl, dashVars>>

\* Dash: the callback runs with the three input values; its outputs are published
RunUpdateCharts(selected_regions, selected_categories, sales_range) ==
    LET g == update_charts(df, selected_regions, selected_categories, sales_range)
    IN  /\ df' = g.df
        /\ scatter_plot' = g.scatter_fig
        /\ bar_chart' = g.bar_fig
        /\ line_chart' = g.line_fig
        /\ n_update' = 1
        /\ first_views' =
              IF ev = "none"
              THEN <<g.scatter_fig, g.line_fig, g.bar_fig>>
              ELSE first_views

\* the callback's initial call when the layout is first rendered
InitialCall ==
    /\ script = "dash" /\ ev = "none"
    /\ RunUpdateCharts(region_dropdown, category_dropdown, sales_slider)
    /\ ev' = "startup"
    /\ UNCHANGED <<script, region_dropdown, category_dropdown, sales_slider, bokehVars>>

\* Input('region-dropdown', 'value')
RegionDropdownChange ==
    /\ script = "dash" /\ ev # "none"
    /\ \E new \in Selections(Unique(df, "region"), RegionOrder) :
          /\ new # region_dropdown
          /\ region_dropdown' = new
          /\ RunUpdateCharts(new, category_dropdown, sales_slider)
    /\ ev' = "region"
    /\ UNCHANGED <<script, category_dropdown, sales_slider, bokehVars>>

\* variant: 'category-dropdown' is not among the callback's inputs
CategoryDropdownChange_NoCallback ==
    /\ script = "dash" /\ ev # "none"
    /\ \E new \in Selections(Unique(df, "category"), CategoryOrder) :
          /\ new # category_dropdown
          /\ category_dropdown' = new
    /\ ev' = "category"
    /\ n_update' = 0
    /\ UNCHANGED <<script, df, region_dropdown, sales_slider, scatter_plot, bar_chart,
                   line_chart, first_views, bokehVars>>

\* Input('category-dropdown', 'value')
CategoryDropdownChange ==
    /\ script = "dash" /\ ev # "none"
    /\ \E new \in Selections(Unique(df, "category"), CategoryOrder) :
          /\ new # category_dropdown
          /\ category_dropdown' = new
          /\ RunUpdateCharts(region_dropdown, new, sales_slider)
    /\ ev' = "category"
    /\ UNCHANGED <<script, region_dropdown, sales_slider, bokehVars>>

\* Input('sales-slider', 'value')
SalesSliderChange ==
    /\ script = "dash" /\ ev # "none"
    /\ \E new \in RangeChoices :
          /\ new # sales_slider
          /\ sales_slider' = new
          /\ RunUpdateCharts(region_dropdown, category_dropdown, new)
    /\ ev' = "sales"
    /\ UNCHANGED <<script, region_dropdown, category_dropdown, bokehVars>>

Next ==
    \/ InitialFill
    \/ RegionCtrlChange
    \/ CatCtrlChange
    \/ SalesCtrlValue
    \/ SalesCtrlThrottled
    \/ InitialCall
    \/ RegionDropdownChange
    \/ CategoryDropdownChange
    \/ SalesSliderChange

Spec == Init /\ [][Next]_vars

(***************************************************************************)
(* What the claims speak of                                                *)
(***************************************************************************)
Started == ev # "none"
\* the handler that ran last invoked the recompute step
Recomputed == ev \in {"startup", "region", "category", "sales"}

\* the current Filter State, as the controls hold it
FilterState ==
    IF script = "bokeh"
    THEN [regions |-> region_ctrl, categories |-> cat_ctrl, rng |-> sales_ctrl.value]
    ELSE [regions |-> region_dropdown, categories |-> category_dropdown,
          rng |-> sales_slider]

\* the three published Derived Views, row-wise
FilteredRows == IF script = "bokeh" THEN scatter_source ELSE scatter_plot
TimeSeries ==
    IF script = "bokeh"
    THEN [j \in DOMAIN line_source.date |->
             [date |-> line_source.date[j], sales |-> line_source.sales[j]]]
    ELSE line_chart
Categorical ==
    IF script = "bokeh"
    THEN [j \in DOMAIN bar_source.category |->
             [key |-> bar_source.category[j], profit |-> bar_source.profit[j]]]
    ELSE [j \in DOMAIN bar_chart |->
             [key |-> bar_chart[j].region, profit |-> bar_chart[j].profit]]

GroupKey(r) == IF script = "bokeh" THEN r.category ELSE r.region
Bucket(r) == IF script = "bokeh" THEN (r.date \div HoursPerDay) * HoursPerDay ELSE r.date

\* record r satisfies the three constraints of filter state f
Satisfies(r, f) ==
    /\ r.region \in f.regions
    /\ r.category \in f.categories
    /\ f.rng[1] <= r.sales
    /\ r.sales <= f.rng[2]

Selected(f) == {i \in DOMAIN df : Satisfies(df[i], f)}
RowsIn(rows, k) == {j \in DOMAIN rows : Bucket(rows[j]) = k}
RowsOf(rows, g) == {j \in DOMAIN rows : GroupKey(rows[j]) = g}

RECURSIVE SumOver(_, _, _)
SumOver(rows, J, c) ==
    IF J = {} THEN 0
    ELSE LET j == CHOOSE x \in J : TRUE
         IN  rows[j][c] + SumOver(rows, J \ {j}, c)

\* the filtered rows are exactly the dataset records satisfying f, once each
FilteredIs(f) ==
    /\ Len(FilteredRows) = Cardinality(Selected(f))
    /\ \A i \in Selected(f) : \E j \in DOMAIN FilteredRows : FilteredRows[j] = df[i]
    /\ \A j \in DOMAIN FilteredRows :
          \E i \in Selected(f) : FilteredRows[j] = df[i]

\* all three views are those of filter state f
ViewsAre(f) ==
    /\ FilteredIs(f)
    /\ SumSeq(Column(TimeSeries, "sales")) = SumOver(df, Selected(f), "sales")
    /\ Values(Column(Categorical, "key")) = {GroupKey(df[i]) : i \in Selected(f)}

(***************************************************************************)
(* C1: after a recompute the filtered subset is exactly the dataset        *)
(* records whose region and category are selected and whose sale amount    *)
(* lies in the inclusive range: none missing, none extra.                  *)
(***************************************************************************)
C1_FilteredExact == Recomputed => FilteredIs(FilterState)

C1_Witness ==
    /\ Recomputed
    /\ Len(FilteredRows) >= 2
    \* a record on the lower bound is in
    /\ \E j \in DOMAIN FilteredRows : FilteredRows[j].sales = FilterState.rng[1]
    \* a record is out for its sale amount alone
    /\ \E i \in DOMAIN df :
          /\ df[i].region \in FilterState.regions
          /\ df[i].category \in FilterState.categories
          /\ df[i].sales < FilterState.rng[1]

(***************************************************************************)
(* C2: the values of the time-series aggregate add up to the sale amount   *)
(* summed over the filtered subset.                                        *)
(***************************************************************************)
C2_Conservation ==
    Started => SumSeq(Column(TimeSeries, "sales")) = SumSeq(Column(FilteredRows, "sales"))

C2_Witness ==
    /\ Started
    /\ Len(TimeSeries) >= 2
    /\ Len(FilteredRows) < Len(df)
    /\ SumSeq(Column(FilteredRows, "sales")) >= 3

(***************************************************************************)
(* C3: every group of the categorical aggregate carries the arithmetic     *)
(* mean of profit over exactly the filtered records of that group, and     *)
(* every group with a filtered record is there.                            *)
(***************************************************************************)
C3_GroupMean ==
    Started =>
        /\ \A j \in DOMAIN Categorical :
              LET J == RowsOf(FilteredRows, Categorical[j].key)
                  m == Categorical[j].profit
              IN  /\ J # {}
                  /\ m.den > 0
                  /\ m.num * Cardinality(J) = SumOver(FilteredRows, J, "profit") * m.den
        /\ \A r \in Values(FilteredRows) :
              \E j \in DOMAIN Categorical : Categorical[j].key = GroupKey(r)

C3_Witness ==
    /\ Started
    /\ Len(Categorical) = 2
    \* a group of two or more filtered records whose mean differs from the
    \* mean over all the dataset's records of the group
    /\ \E j \in DOMAIN Categorical :
          LET J == RowsOf(FilteredRows, Categorical[j].key)
              D == RowsOf(df, Categorical[j].key)
          IN  /\ Cardinality(J) >= 2
              /\ Cardinality(D) > Cardinality(J)
              /\ SumOver(FilteredRows, J, "profit") * Cardinality(D)
                    # SumOver(df, D, "profit") * Cardinality(J)

(***************************************************************************)
(* C4: the views depend on the dataset and the filter state alone: however *)
(* many filter changes came before, a recompute for the filter state of    *)
(* the initial recompute publishes the views the initial recompute did.    *)
(***************************************************************************)
PublishedViews ==
    IF script = "bokeh"
    THEN <<scatter_source, line_source, bar_source, x_range_factors>>
    ELSE <<scatter_plot, line_chart, bar_chart>>

InitialFilterState ==
    [regions |-> Unique(df, "region"), categories |-> Unique(df, "category"),
     rng |-> <<Min(Unique(df, "sales")), Max(Unique(df, "sales"))>>]

C5_Original == Started => ViewsAre(FilterState)

(***************************************************************************)
(* C5, amended: every change of the region selection, of the category      *)
(* selection, of the Bokeh slider's value_throttled or of the Dash         *)
(* slider's value runs the recompute, and when it completes all three      *)
(* views are those of the current filter state; a change of the Bokeh      *)
(* slider's value alone runs nothing.                                      *)
(***************************************************************************)
SubscribedChange ==
    \/ region_ctrl' # region_ctrl
    \/ cat_ctrl' # cat_ctrl
    \/ sales_ctrl'.value_throttled # sales_ctrl.value_throttled
    \/ region_dropdown' # region_dropdown
    \/ category_dropdown' # category_dropdown
    \/ sales_slider' # sales_slider

C5_Amended ==
    [][ /\ SubscribedChange => (n_update' = 1 /\ ViewsAre(FilterState)')
        /\ (~SubscribedChange /\ Started) => (n_update' = 0 /\ UNCHANGED PublishedViews)
      ]_vars

C5_Witness ==
    /\ script = "bokeh"
    /\ ev = "sales"
    /\ PublishedViews # first_views
    /\ FilteredRows # <<>>

(***************************************************************************)
(* C6: an empty region selection, an empty category selection or a range   *)
(* with low > high yields an empty filtered subset and empty aggregates    *)
(* (and no bar-axis factors in the Bokeh script).                          *)
(***************************************************************************)
EmptySelection ==
    \/ FilterState.regions = {}
    \/ FilterState.categories = {}
    \/ FilterState.rng[1] > FilterState.rng[2]

C6_EmptyExcludesAll ==
    (Recomputed /\ EmptySelection) =>
        /\ FilteredRows = <<>>
        /\ TimeSeries = <<>>
        /\ Categorical = <<>>
        /\ script = "bokeh" => x_range_factors = <<>>

C6_Witness ==
    /\ Recomputed
    /\ FilterState.regions = {}
    /\ FilterState.categories # {}
    /\ FilterState.rng[1] <= FilterState.rng[2]
    /\ \E i \in DOMAIN df :
          /\ df[i].category \in FilterState.categories
          /\ FilterState.rng[1] <= df[i].sales
          /\ df[i].sales <= FilterState.rng[2]

(***************************************************************************)
(* C7: no step changes the dataset, and a control's value changes only in  *)
(* the step of the user event on that control.                             *)
(***************************************************************************)
C7_Frame ==
    [][ /\ df' = df
        /\ region_ctrl' # region_ctrl => ev' = "region"
        /\ cat_ctrl' # cat_ctrl => ev' = "category"
        /\ sales_ctrl'.value # sales_ctrl.value => ev' = "slide"
        /\ sales_ctrl'.value_throttled # sales_ctrl.value_throttled => ev' = "sales"
        /\ region_dropdown' # region_dropdown => ev' = "region"
        /\ category_dropdown' # category_dropdown => ev' = "category"
        /\ sales_slider' # sales_slider => ev' = "sales"
      ]_vars

C7_Witness ==
    /\ Recomputed
    /\ ev # "startup"
    /\ Len(df) = NRows
    /\ FilteredRows # <<>>
    /\ Len(FilteredRows) < Len(df)

(***************************************************************************)
(* C8: every record's profit margin is (profit / d) * 100 with d the sale  *)
(* amount, or 1 when the sale amount is zero; the absolute margin is its   *)
(* absolute value; the classification is positive (green) exactly when the *)
(* margin is >= 0.                                                         *)
(***************************************************************************)
C8_Margin ==
    \A i \in DOMAIN df :
        LET r == df[i]
            d == IF r.sales = 0 THEN 1 ELSE r.sales
            m == r.profit_margin
        IN  /\ m.den > 0
            /\ m.num * d = r.profit * 100 * m.den
            /\ r.abs_margin.den = m.den
            /\ r.abs_margin.num = Abs(m.num)
            /\ script = "bokeh" =>
                  r.color = (IF m.num >= 0 THEN "#2ecc71" ELSE "#e74c3c")
            /\ script = "dash" =>
                  r.margin_sign = (IF m.num >= 0 THEN "Positive" ELSE "Negative")

C8_Witness ==
    /\ Started
    /\ \E i \in DOMAIN df :
          /\ df[i].sales = 0
          /\ df[i].profit_margin = [num |-> -100, den |-> 1]
    /\ \E i \in DOMAIN df : df[i].profit_margin = [num |-> 50, den |-> 1]

Ascending ==
    \A j \in DOMAIN TimeSeries : \A k \in DOMAIN TimeSeries :
        j < k => TimeSeries[j].date < TimeSeries[k].date

BucketsSummed ==
    \A r \in Values(FilteredRows) :
        \E j \in DOMAIN TimeSeries :
            /\ TimeSeries[j].date = Bucket(r)
            /\ TimeSeries[j].sales =
                  SumOver(FilteredRows, RowsIn(FilteredRows, Bucket(r)), "sales")

C10_Original ==
    Started =>
        /\ Ascending
        /\ BucketsSummed
        /\ \A j \in DOMAIN TimeSeries : RowsIn(FilteredRows, TimeSeries[j].date) # {}

(***************************************************************************)
(* C10, amended: strictly ascending, every bucket with a filtered record   *)
(* present with the sum of its sale amounts; in the Dash script no other   *)
(* entry; in the Bokeh script the only other entries are the calendar days *)
(* without a filtered record lying between two days that have one, each    *)
(* with the value 0, and every such day is present.                        *)
(***************************************************************************)
C10_Amended ==
    Started =>
        /\ Ascending
        /\ BucketsSummed
        /\ \A j \in DOMAIN TimeSeries :
              \/ RowsIn(FilteredRows, TimeSeries[j].date) # {}
              \/ /\ script = "bokeh"
                 /\ TimeSeries[j].sales = 0
                 /\ \E a \in Values(FilteredRows) : Bucket(a) < TimeSeries[j].date
                 /\ \E b \in Values(FilteredRows) : Bucket(b) > TimeSeries[j].date
        /\ script = "bokeh" =>
              \A j \in DOMAIN TimeSeries :
                  j > 1 => TimeSeries[j].date = TimeSeries[j - 1].date + HoursPerDay

C10_Witness ==
    /\ script = "bokeh"
    /\ Started
    /\ \E j \in DOMAIN TimeSeries :
          /\ RowsIn(FilteredRows, TimeSeries[j].date) = {}
          /\ TimeSeries[j].sales = 0
    /\ \E j \in DOMAIN TimeSeries :
          Cardinality(RowsIn(FilteredRows, TimeSeries[j].date)) = 2

====
